---- MODULE Spec2Model ----
(***************************************************************************)
(* A model of the merkle-tree repository: the generic Merkle tree of       *)
(* merkle-tree-lib (build, root, iterate_tree, search_with_path), over     *)
(* the payload type UserItem_B of its tests.                               *)
(*                                                                         *)
(* Byte strings are sequences of tokens.  A token is a piece of text       *)
(* ([str |-> ...]), a number in decimal ([num |-> ...]) or a 32-byte       *)
(* SHA-256 digest, which is the term [sha256 |-> <the bytes hashed>]: two  *)
(* digests are equal exactly when the hashed byte strings are equal (the   *)
(* collision-free hash model).                                             *)
(***************************************************************************)
EXTENDS Integers, Sequences, FiniteSets, TLC

\* Bounds of the model.
NumIds == 2
MaxLen == 4
MaxUsers == 8
MaxStr == 5
MaxTrunc == 6
MaxSearchLen == 3

VARIABLES
    tag_leaf,     \* build's argument tag_leaf
    tag_branch,   \* build's argument tag_branch
    input,        \* build's argument input: the ordered records
    pc,           \* "start", "reduce" (in build's while loop), "built", "panic";
                  \* "util" where only the string utility is called
    nodes,        \* build's local vector `nodes`
    passes,       \* passes of build's while loop completed
    tree,         \* the MerkleTree: [root |-> None or Some(node)]
    op,           \* the last read operation called on the tree
    pred,         \* the predicate handed to the last search_with_path
    out           \* what the last read operation returned

vars == <<tag_leaf, tag_branch, input, pc, nodes, passes, tree, op, pred, out>>

-----------------------------------------------------------------------------
\* Option<T>
None == <<>>
Some(x) == <<x>>
unwrap(o) == o[1]

\* The payloads: UserItem_B of the tests, (1,1111), (2,2222), ...
UserItem_B(i) == [id |-> i, balance |-> i * 1111]
Records == {UserItem_B(i) : i \in 1..NumIds}
UserRecords == {UserItem_B(i) : i \in 1..MaxUsers}

\* The (tag_leaf, tag_branch) pairs of the tests.
TagPairs == {<<"ProofOfReserve_Leaf", "ProofOfReserve_Branch">>,
             <<"Bitcoin_Transaction", "Bitcoin_Transaction">>}

\* impl MerkleTreeData for UserItem_B: format!("({},{})", id, balance) as bytes.
serialize(data) ==
    <<[str |-> "("], [num |-> data.id], [str |-> ","], [num |-> data.balance], [str |-> ")"]>>

\* str::as_bytes
as_bytes(text) == <<[str |-> text]>>

\* Sha256 over a byte string: one digest, collision-free.
Sha256(bytes) == [sha256 |-> bytes]

\* hex::encode of a byte string.
hex_encode(bytes) == [hex |-> bytes]

\* tagged_hash: SHA256(SHA256(tag) ++ SHA256(tag) ++ input), as a Vec<u8>.
tagged_hash(tag, bytes) ==
    LET tag_hash == Sha256(as_bytes(tag))
    IN  <<Sha256(<<tag_hash>> \o <<tag_hash>> \o bytes)>>

\* MerkleNode::default(), what std::mem::take leaves behind.
DefaultNode == [hash |-> <<>>, left |-> None, right |-> None, user_data |-> None]

\* new_leaf that does not keep the payload.
new_leaf_no_payload(hash, user_data) ==
    [hash |-> hash, left |-> None, right |-> None, user_data |-> None]

new_leaf(hash, user_data) ==
    [hash |-> hash, left |-> None, right |-> None, user_data |-> user_data]

\* new_branch with the left child's hash taken twice.
new_branch_left_twice(left, right, tag) ==
    LET combined == left.hash \o left.hash
    IN  [hash |-> tagged_hash(tag, combined),
         left |-> Some(left), right |-> Some(right), user_data |-> None]

\* new_branch over the pair of the children's hashes in sorted order: the
\* same hash whichever child is the left one.
new_branch_sorted_pair(left, right, tag) ==
    LET combined == <<[sorted |-> {left.hash, right.hash}]>>
    IN  [hash |-> tagged_hash(tag, combined),
         left |-> Some(left), right |-> Some(right), user_data |-> None]

\* new_branch with the children's hashes concatenated right before left.
new_branch_swapped(left, right, tag) ==
    LET combined == right.hash \o left.hash
    IN  [hash |-> tagged_hash(tag, combined),
         left |-> Some(left), right |-> Some(right), user_data |-> None]

new_branch(left, right, tag) ==
    LET combined == left.hash \o right.hash
    IN  [hash |-> tagged_hash(tag, combined),
         left |-> Some(left), right |-> Some(right), user_data |-> None]

-----------------------------------------------------------------------------
\* The end of a chunk: its last index, or the vector's.
chunk_end(a, b) == IF a <= b THEN a ELSE b

\* build's leaves with the leaf level padded to an even length by a copy of
\* the last leaf: the root of a single record becomes a branch.
build_leaves_padded(tl, in) ==
    LET padded == IF Len(in) % 2 = 1 THEN Append(in, in[Len(in)]) ELSE in
    IN  [i \in 1..Len(padded) |->
            new_leaf(tagged_hash(tl, serialize(padded[i])), Some(padded[i]))]

\* build, lines 169-177: the leaves, in input order.
build_leaves(tl, in) ==
    [i \in 1..Len(in) |-> new_leaf(tagged_hash(tl, serialize(in[i])), Some(in[i]))]

\* chunks_mut(3): consecutive groups of three, the last one of what is left.
chunks_of_three(ns) ==
    [j \in 1..((Len(ns) + 2) \div 3) |->
        SubSeq(ns, 3 * j - 2, chunk_end(3 * j, Len(ns)))]

\* chunks_exact_mut(2): the consecutive pairs, a trailing single node left
\* out.
chunks_exact(ns) ==
    [j \in 1..(Len(ns) \div 2) |-> <<ns[2 * j - 1], ns[2 * j]>>]

\* chunks_mut(2): the consecutive pairs, the last one of a single node when
\* the length is odd.
chunks(ns) ==
    [j \in 1..((Len(ns) + 1) \div 2) |->
        IF 2 * j <= Len(ns) THEN <<ns[2 * j - 1], ns[2 * j]>> ELSE <<ns[2 * j - 1]>>]

\* The match with the take made before the clone in the arm of a single
\* node, [std::mem::take(l), l.clone()]: the clone is of the default node.
pair_of_take_first(chunk) ==
    CASE Len(chunk) = 2 -> Some(<<chunk[1], chunk[2]>>)
      [] Len(chunk) = 1 -> Some(<<chunk[1], DefaultNode>>)
      [] OTHER -> None

\* The match of build's closure: Some([left, right]) of a chunk, or None
\* where the code panics.
\* [l] => [l.clone(), std::mem::take(l)]: the clone is made before the take.
pair_of(chunk) ==
    CASE Len(chunk) = 2 -> Some(<<chunk[1], chunk[2]>>)
      [] Len(chunk) = 1 -> Some(<<chunk[1], chunk[1]>>)
      [] OTHER -> None

\* One pass of build's while loop, lines 180-191: Some(the next level), or
\* None where a chunk makes the closure panic.
reduce_level(ns, tb) ==
    LET cs == chunks(ns)
    IN  IF \E j \in 1..Len(cs) : pair_of(cs[j]) = None THEN None
        ELSE Some([j \in 1..Len(cs) |->
                    LET p == unwrap(pair_of(cs[j]))
                    IN  new_branch(p[1], p[2], tb)])

\* The loop condition off by one: the loop is left with two nodes.
build_continues_above_two(ns) == Len(ns) > 2

\* while nodes.len() > 1
build_continues(ns) == Len(ns) > 1

-----------------------------------------------------------------------------
\* MerkleTree::root: the root's hash in hex, or None.
root(t) ==
    IF t.root = None THEN None ELSE Some(hex_encode(unwrap(t.root).hash))

\* TraversePath::new, add_step, and the two pops of search_node_with_path.
TraversePath_new == [hashes |-> <<>>, directions |-> <<>>]

add_step(path, hash, direction) ==
    [hashes |-> Append(path.hashes, hash),
     directions |-> Append(path.directions, direction)]

\* Vec::pop on an empty vector returns None and changes nothing.
vec_pop(v) == IF v = <<>> THEN v ELSE SubSeq(v, 1, Len(v) - 1)

\* The two pops forgotten altogether.
pop_step_forgotten(path) == path

\* The two pops with directions.pop() forgotten.
pop_step_hashes_only(path) ==
    [hashes |-> vec_pop(path.hashes), directions |-> path.directions]

pop_step(path) ==
    [hashes |-> vec_pop(path.hashes), directions |-> vec_pop(path.directions)]

\* value with the codes of Left and Right shifted by one.
value_shifted(direction) ==
    CASE direction = "Left" -> 1
      [] direction = "Right" -> 2
      [] direction = "Root" -> 2

\* NodeDirection::value
value(direction) ==
    CASE direction = "Left" -> 0
      [] direction = "Right" -> 1
      [] direction = "Root" -> 2

\* zip of two vectors stops at the shorter one.
Min(a, b) == IF a <= b THEN a ELSE b

\* TraversePath::to_vec
to_vec(path) ==
    [k \in 1..Min(Len(path.hashes), Len(path.directions)) |->
        <<path.hashes[k], value(path.directions[k])>>]

\* A predicate Fn(&T) -> bool is the set of payloads it is true of.
predicate(p, user_data) == user_data \in p

\* search_node_with_path with the right child searched before the left one.
RECURSIVE search_node_with_path_right_first(_, _, _)
search_node_with_path_right_first(node, p, path) ==
    IF node.user_data # None /\ predicate(p, unwrap(node.user_data))
    THEN [found |-> Some(<<node, path>>), path |-> path]
    ELSE
        LET after_right ==
                IF node.right = None THEN [found |-> None, path |-> path]
                ELSE LET r == search_node_with_path_right_first(unwrap(node.right), p,
                                  add_step(path, hex_encode(node.hash), "Right"))
                     IN  IF r.found # None THEN r
                         ELSE [found |-> None, path |-> pop_step(r.path)]
        IN  IF after_right.found # None THEN after_right
            ELSE IF node.left = None THEN [found |-> None, path |-> after_right.path]
            ELSE LET r == search_node_with_path_right_first(unwrap(node.left), p,
                              add_step(after_right.path, hex_encode(node.hash), "Left"))
                 IN  IF r.found # None THEN r
                     ELSE [found |-> None, path |-> pop_step(r.path)]

\* search_node_with_path.  `path` is the shared buffer: the result holds what
\* the call returns (found) and the buffer as the call leaves it (path).
RECURSIVE search_node_with_path(_, _, _)
search_node_with_path(node, p, path) ==
    IF node.user_data # None /\ predicate(p, unwrap(node.user_data))
    THEN [found |-> Some(<<node, path>>), path |-> path]
    ELSE
        LET after_left ==
                IF node.left = None THEN [found |-> None, path |-> path]
                ELSE LET r == search_node_with_path(unwrap(node.left), p,
                                  add_step(path, hex_encode(node.hash), "Left"))
                     IN  IF r.found # None THEN r
                         ELSE [found |-> None, path |-> pop_step(r.path)]
        IN  IF after_left.found # None THEN after_left
            ELSE IF node.right = None THEN [found |-> None, path |-> after_left.path]
            ELSE LET r == search_node_with_path(unwrap(node.right), p,
                              add_step(after_left.path, hex_encode(node.hash), "Right"))
                 IN  IF r.found # None THEN r
                     ELSE [found |-> None, path |-> pop_step(r.path)]

\* MerkleTree::search_with_path
search_with_path(t, p) ==
    IF t.root # None
    THEN search_node_with_path(unwrap(t.root), p, TraversePath_new).found
    ELSE None

\* What the closures of display_tree and display_mermaid_diagram read of a
\* step: the level, the direction, the node's hash in hex, its payload and
\* its parent's hash in hex.
step_fields(step) ==
    [level |-> step.level,
     direction |-> step.direction,
     hash |-> hex_encode(step.current_node.hash),
     user_data |-> step.current_node.user_data,
     parent |-> IF step.parent_node = None THEN None
                ELSE Some(hex_encode(unwrap(step.parent_node).hash))]

\* The while loop with the left child pushed before the right one, so that
\* the right child pops first.
RECURSIVE iterate_stack_left_pushed_first(_, _)
iterate_stack_left_pushed_first(stack, output) ==
    IF stack = <<>> THEN output
    ELSE
        LET step == stack[Len(stack)]
            popped == SubSeq(stack, 1, Len(stack) - 1)
            cur == step.current_node
            with_left ==
                IF cur.left # None
                THEN Append(popped, [parent_node |-> Some(cur),
                                     current_node |-> unwrap(cur.left),
                                     level |-> step.level + 1,
                                     direction |-> "Left"])
                ELSE popped
            with_right ==
                IF cur.right # None
                THEN Append(with_left, [parent_node |-> Some(cur),
                                        current_node |-> unwrap(cur.right),
                                        level |-> step.level + 1,
                                        direction |-> "Right"])
                ELSE with_left
        IN  iterate_stack_left_pushed_first(with_right,
                                            Append(output, step_fields(step)))

\* iterate_tree's while loop over the explicit stack (the top is the last
\* element): pop a step, emit map_fn of it (the fields the renderers'
\* closures read), push right then left.
RECURSIVE iterate_stack(_, _)
iterate_stack(stack, output) ==
    IF stack = <<>> THEN output
    ELSE
        LET step == stack[Len(stack)]
            popped == SubSeq(stack, 1, Len(stack) - 1)
            cur == step.current_node
            with_right ==
                IF cur.right # None
                THEN Append(popped, [parent_node |-> Some(cur),
                                     current_node |-> unwrap(cur.right),
                                     level |-> step.level + 1,
                                     direction |-> "Right"])
                ELSE popped
            with_left ==
                IF cur.left # None
                THEN Append(with_right, [parent_node |-> Some(cur),
                                         current_node |-> unwrap(cur.left),
                                         level |-> step.level + 1,
                                         direction |-> "Left"])
                ELSE with_right
        IN  iterate_stack(with_left, Append(output, step_fields(step)))

\* MerkleTree::iterate_tree
iterate_tree(t) ==
    IF t.root = None THEN None
    ELSE Some(iterate_stack(<<[parent_node |-> None,
                               current_node |-> unwrap(t.root),
                               level |-> 0,
                               direction |-> "Root"]>>, <<>>))

-----------------------------------------------------------------------------
\* The whole of build, as the steps below run it: the empty check, the
\* leaves, the passes of the while loop, nodes[0] as the root.  None where
\* the code panics.
RECURSIVE build_loop(_, _)
build_loop(ns, tb) ==
    IF build_continues(ns)
    THEN LET next == reduce_level(ns, tb)
         IN  IF next = None THEN None ELSE build_loop(unwrap(next), tb)
    ELSE Some(ns)

build(tl, tb, in) ==
    IF in = <<>> THEN Some([root |-> None])
    ELSE LET ns == build_loop(build_leaves(tl, in), tb)
         IN  IF ns = None \/ unwrap(ns) = <<>> THEN None
             ELSE Some([root |-> Some(unwrap(ns)[1])])

-----------------------------------------------------------------------------
\* The argument lists of build: every list of at most MaxLen of the NumIds
\* records (repetitions included), and the lists (1,1111), ..., (n,n*1111)
\* of the tests and of the application, for n up to MaxUsers.
ListsOver(S, n) == UNION {[1..k -> S] : k \in 0..n}

UserList(n) == [i \in 1..n |-> UserItem_B(i)]

Inputs == ListsOver(Records, MaxLen) \cup {UserList(n) : n \in 0..MaxUsers}

\* The predicates searched with: every predicate over the NumIds records,
\* and user_data.id == user_id for each of the MaxUsers ids.
Predicates == (SUBSET Records) \cup {{r} : r \in UserRecords}

Init ==
    /\ \E tags \in TagPairs : tag_leaf = tags[1] /\ tag_branch = tags[2]
    /\ input \in Inputs
    /\ pc = "start"
    /\ nodes = <<>>
    /\ passes = 0
    /\ tree = [root |-> None]
    /\ op = "none"
    /\ pred = {}
    /\ out = None

\* build without its empty check.
BuildStart_NoEmptyCheck ==
    /\ pc = "start"
    /\ pc' = "reduce"
    /\ nodes' = build_leaves(tag_leaf, input)
    /\ UNCHANGED <<tag_leaf, tag_branch, input, passes, tree, op, pred, out>>

\* build, lines 165-177: the empty check, then the leaves.
BuildStart ==
    /\ pc = "start"
    /\ IF input = <<>>
       THEN /\ pc' = "built"
            /\ tree' = [root |-> None]
            /\ nodes' = nodes
       ELSE /\ pc' = "reduce"
            /\ nodes' = build_leaves(tag_leaf, input)
            /\ tree' = tree
    /\ UNCHANGED <<tag_leaf, tag_branch, input, passes, op, pred, out>>

\* build, lines 179-192: one pass of the while loop.
BuildPass ==
    /\ pc = "reduce"
    /\ build_continues(nodes)
    /\ LET next == reduce_level(nodes, tag_branch)
       IN  IF next = None
           THEN pc' = "panic" /\ nodes' = nodes
           ELSE pc' = "reduce" /\ nodes' = unwrap(next)
    /\ passes' = passes + 1
    /\ UNCHANGED <<tag_leaf, tag_branch, input, tree, op, pred, out>>

\* build, lines 194-196: the loop is left, nodes[0] is cloned into the root.
BuildFinish ==
    /\ pc = "reduce"
    /\ ~build_continues(nodes)
    /\ IF Len(nodes) >= 1
       THEN pc' = "built" /\ tree' = [root |-> Some(nodes[1])]
       ELSE pc' = "panic" /\ tree' = tree
    /\ UNCHANGED <<tag_leaf, tag_branch, input, nodes, passes, op, pred, out>>

\* tree.root()
Root ==
    /\ pc = "built"
    /\ op' = "root"
    /\ pred' = {}
    /\ out' = root(tree)
    /\ UNCHANGED <<tag_leaf, tag_branch, input, pc, nodes, passes, tree>>

\* tree.search_with_path(predicate)
SearchWithPath ==
    /\ pc = "built"
    /\ \E p \in Predicates :
        /\ op' = "search_with_path"
        /\ pred' = p
        /\ out' = search_with_path(tree, p)
    /\ UNCHANGED <<tag_leaf, tag_branch, input, pc, nodes, passes, tree>>

\* tree.iterate_tree(map_fn), as display_tree and display_mermaid_diagram call it
IterateTree ==
    /\ pc = "built"
    /\ op' = "iterate_tree"
    /\ pred' = {}
    /\ out' = iterate_tree(tree)
    /\ UNCHANGED <<tag_leaf, tag_branch, input, pc, nodes, passes, tree>>

Next ==
    \/ BuildStart
    \/ BuildPass
    \/ BuildFinish
    \/ Root
    \/ SearchWithPath
    \/ IterateTree

Spec == Init /\ [][Next]_vars

-----------------------------------------------------------------------------
\* The string utility.  A String is the sequence of its characters (ASCII:
\* bytes and characters coincide, as for the hex strings it is called on).

\* &input[from..to], 0-based and half open; None where the slice panics
\* (a bound beyond the length, or from > to).
str_slice(text, from, to) ==
    IF 0 <= from /\ from <= to /\ to <= Len(text)
    THEN Some(SubSeq(text, from + 1, to))
    ELSE None

\* usize subtraction; None where it underflows.
usize_sub(a, b) == IF b <= a THEN Some(a - b) ELSE None

\* let half_len = max_len / 2, rounded up instead of down.
half_len_of_rounded_up(max_len) == (max_len + 1) \div 2

\* let half_len = max_len / 2;
half_len_of(max_len) == max_len \div 2

\* The early return taken only when the input is shorter than max_len.
returns_unchanged_strict(len, max_len) == len < max_len

\* if len <= max_len { return input.to_string(); }
returns_unchanged(len, max_len) == len <= max_len

\* truncate_middle: Some(the String returned), or None where it panics.
truncate_middle(text, max_len) ==
    LET len == Len(text)
        half_len == half_len_of(max_len)
        start == str_slice(text, 0, half_len)
        tail_len == usize_sub(max_len, half_len)
        from == IF tail_len = None THEN None ELSE usize_sub(len, unwrap(tail_len))
        end == IF from = None THEN None ELSE str_slice(text, unwrap(from), len)
    IN  IF returns_unchanged(len, max_len) THEN Some(text)
        ELSE IF start = None \/ end = None THEN None
        ELSE Some(unwrap(start) \o <<".", ".", ".">> \o unwrap(end))

\* The strings truncate_middle is tried on: every string of at most MaxStr
\* of three characters, and the alphabet of the tests; the lengths: up to
\* MaxTrunc, and the 10 of the tests and of the renderers.
Chars == {"a", "b", "c"}

Alphabet ==
    <<"a", "b", "c", "d", "e", "f", "g", "h", "i", "j", "k", "l", "m",
      "n", "o", "p", "q", "r", "s", "t", "u", "v", "w", "x", "y", "z">>

Strings == ListsOver(Chars, MaxStr) \cup {Alphabet}

MaxLens == (0..MaxTrunc) \cup {10}

InitUtil ==
    /\ tag_leaf = "ProofOfReserve_Leaf"
    /\ tag_branch = "ProofOfReserve_Branch"
    /\ input = <<>>
    /\ pc = "util"
    /\ nodes = <<>>
    /\ passes = 0
    /\ tree = [root |-> None]
    /\ op = "none"
    /\ pred = {}
    /\ \E text \in Strings, max_len \in MaxLens :
        out = [input |-> text, max_len |-> max_len, returned |-> None]

\* truncate_middle(input, max_len), on the arguments drawn: out holds the
\* call, its arguments and, once it is made, what it returned.
TruncateMiddle ==
    /\ pc = "util"
    /\ op = "none"
    /\ op' = "truncate_middle"
    /\ out' = [out EXCEPT !.returned = truncate_middle(out.input, out.max_len)]
    /\ UNCHANGED <<tag_leaf, tag_branch, input, pc, nodes, passes, tree, pred>>

NextUtil == TruncateMiddle

SpecUtil == InitUtil /\ [][NextUtil]_vars

-----------------------------------------------------------------------------
\* The front end (proof-of-reserve-app).  Its tree is built at launch from
\* the user list (1,1111), ..., (n,n*1111); the launch list has n = 8.

\* The <user_id> segment of a request path: a decimal numeral or other text.
UserIdSegments ==
    {[text |-> "decimal", num |-> i] : i \in 0..(MaxUsers + 1)}
        \cup {[text |-> "abc", num |-> 0]}

\* user_id.parse::<u32>(): Some(the number), or None for Err (the numerals
\* drawn are all within u32).
parse_u32(user_id) ==
    IF user_id.text = "decimal" THEN Some(user_id.num) ELSE None

\* What a handler gives back: the value it returns, or a panic.
Returned(body) == [status |-> "ok", body |-> Some(body)]
Panicked == [status |-> "panic", body |-> None]
NoResponse == [status |-> "none", body |-> None]

\* |user_data| user_data.user_id == n
user_id_is(n) == {r \in UserRecords : r.id = n}

\* proof_all_users: state.tree.root().unwrap()
proof_all_users(t) ==
    IF root(t) = None THEN Panicked ELSE Returned(unwrap(root(t)))

\* proof_by_user_id: the closure unwraps the parse at the first leaf it is
\* called on; the search result is unwrapped.
proof_by_user_id(t, user_id) ==
    IF t.root # None /\ parse_u32(user_id) = None THEN Panicked
    ELSE
        LET p == IF parse_u32(user_id) = None THEN {}
                 ELSE user_id_is(unwrap(parse_u32(user_id)))
            found == search_with_path(t, p)
        IN  IF found = None THEN Panicked
            ELSE LET node == unwrap(found)[1]
                     path == unwrap(found)[2]
                 IN  IF node.user_data = None THEN Panicked
                     ELSE Returned([user_balance |-> unwrap(node.user_data).balance,
                                    proof |-> to_vec(path)])

InitApp ==
    /\ tag_leaf = "ProofOfReserve_Leaf"
    /\ tag_branch = "ProofOfReserve_Branch"
    /\ input \in {UserList(n) : n \in 1..MaxUsers}
    /\ pc = "start"
    /\ nodes = <<>>
    /\ passes = 0
    /\ tree = [root |-> None]
    /\ op = "none"
    /\ pred = [text |-> "", num |-> 0]
    /\ out = NoResponse

\* GET /proof
ProofAllUsers ==
    /\ pc = "built"
    /\ op' = "proof_all_users"
    /\ pred' = [text |-> "", num |-> 0]
    /\ out' = proof_all_users(tree)
    /\ UNCHANGED <<tag_leaf, tag_branch, input, pc, nodes, passes, tree>>

\* GET /proof/<user_id>; pred holds the segment requested.
ProofByUserId ==
    /\ pc = "built"
    /\ \E user_id \in UserIdSegments :
        /\ op' = "proof_by_user_id"
        /\ pred' = user_id
        /\ out' = proof_by_user_id(tree, user_id)
    /\ UNCHANGED <<tag_leaf, tag_branch, input, pc, nodes, passes, tree>>

NextApp ==
    \/ BuildStart
    \/ BuildPass
    \/ BuildFinish
    \/ ProofAllUsers
    \/ ProofByUserId

SpecApp == InitApp /\ [][NextApp]_vars

-----------------------------------------------------------------------------
\* The Mermaid renderer.

\* impl MerkleTreeData for UserItem_B: mermaid_node_label
mermaid_node_label(data) ==
    <<[str |-> "<br>User ID: "], [num |-> data.id],
      [str |-> "<br>Balance: "], [num |-> data.balance]>>

\* format!("Node_{current_node_hash}"): the identifier of a node in the
\* diagram, "Node_" and then the full hash in hex.
mermaid_node_id(hash) == [Node_ |-> hash]

\* The closure of display_mermaid_diagram on one step: the node's line (its
\* identifier and, in brackets, the hash cut to 10 and the payload's label)
\* and, for a step that is not the root's, the edge from the parent's
\* identifier to the node's.
mermaid_step(fields) ==
    [node |-> mermaid_node_id(fields.hash),
     label |-> <<[truncate_middle |-> fields.hash, max_len |-> 10]>>
                 \o (IF fields.user_data = None THEN <<>>
                     ELSE mermaid_node_label(unwrap(fields.user_data))),
     edge |-> IF fields.direction # "Root"
              THEN Some(<<mermaid_node_id(unwrap(fields.parent)),
                          mermaid_node_id(fields.hash)>>)
              ELSE None]

\* display_mermaid_diagram: the header and the steps' lines, or the text for
\* the empty tree.
display_mermaid_diagram(t) ==
    IF iterate_tree(t) = None THEN [text |-> "Tree is empty.", lines |-> <<>>]
    ELSE [text |-> "flowchart TD",
          lines |-> [k \in 1..Len(unwrap(iterate_tree(t))) |->
                        mermaid_step(unwrap(iterate_tree(t))[k])]]

\* tree.display_mermaid_diagram()
DisplayMermaidDiagram ==
    /\ pc = "built"
    /\ op' = "display_mermaid_diagram"
    /\ pred' = {}
    /\ out' = display_mermaid_diagram(tree)
    /\ UNCHANGED <<tag_leaf, tag_branch, input, pc, nodes, passes, tree>>

NextDisplay ==
    \/ BuildStart
    \/ BuildPass
    \/ BuildFinish
    \/ DisplayMermaidDiagram

SpecDisplay == Init /\ [][NextDisplay]_vars

-----------------------------------------------------------------------------
\* The earlier, concrete implementation (merkle-root-lib): the payload is
\* UserData, build takes (user_id, user_balance) tuples, and the search
\* walks an explicit stack.  Its nodes, new_leaf, new_branch, tagged_hash,
\* TraversePath and the loop of its build read as those above.

\* UserData::new
UserData_new(user_id, user_balance) ==
    [user_id |-> user_id, user_balance |-> user_balance]

\* The tuples of a list of records, and the same predicate over UserData.
as_tuples(in) == [i \in 1..Len(in) |-> <<in[i].id, in[i].balance>>]
over_UserData(p) == {UserData_new(r.id, r.balance) : r \in p}

\* build of merkle-root-lib, the leaves: format!("({},{})", user_id,
\* user_balance) hashed under tag_leaf, in input order.
root_lib_build_leaves(tl, user_data) ==
    [i \in 1..Len(user_data) |->
        new_leaf(tagged_hash(tl, <<[str |-> "("], [num |-> user_data[i][1]],
                                   [str |-> ","], [num |-> user_data[i][2]],
                                   [str |-> ")"]>>),
                 Some(UserData_new(user_data[i][1], user_data[i][2])))]

\* build of merkle-root-lib; None where it panics.
root_lib_build(tl, tb, user_data) ==
    IF user_data = <<>> THEN Some([root |-> None])
    ELSE LET ns == build_loop(root_lib_build_leaves(tl, user_data), tb)
         IN  IF ns = None \/ unwrap(ns) = <<>> THEN None
             ELSE Some([root |-> Some(unwrap(ns)[1])])

\* The while loop of merkle-root-lib's search_with_path over its stack of
\* (node, path) (the top is the last element): pop; return the node if it
\* has a payload the predicate is true of; push the left child, then the
\* right child, each with its own copy of the path extended by one step.
RECURSIVE root_lib_search_stack(_, _)
root_lib_search_stack(stack, p) ==
    IF stack = <<>> THEN None
    ELSE
        LET node == stack[Len(stack)][1]
            path == stack[Len(stack)][2]
            popped == SubSeq(stack, 1, Len(stack) - 1)
            with_left ==
                IF node.left # None
                THEN Append(popped, <<unwrap(node.left),
                                      add_step(path, hex_encode(node.hash), "Left")>>)
                ELSE popped
            with_right ==
                IF node.right # None
                THEN Append(with_left, <<unwrap(node.right),
                                         add_step(path, hex_encode(node.hash), "Right")>>)
                ELSE with_left
        IN  IF node.user_data # None /\ predicate(p, unwrap(node.user_data))
            THEN Some(<<node, path>>)
            ELSE root_lib_search_stack(with_right, p)

\* search_with_path of merkle-root-lib
root_lib_search_with_path(t, p) ==
    IF t.root # None
    THEN root_lib_search_stack(<<<<unwrap(t.root), TraversePath_new>>>>, p)
    ELSE None

\* merkle-root-lib on the same tags and records: build, then
\* search_with_path with the same predicate.  tree (the generic build of
\* the same records) is left as it is.
RootLibSearchWithPath ==
    /\ pc = "built"
    /\ \E p \in Predicates :
        /\ op' = "root_lib_search_with_path"
        /\ pred' = p
        /\ out' = LET t == root_lib_build(tag_leaf, tag_branch, as_tuples(input))
                  IN  IF t = None THEN None
                      ELSE root_lib_search_with_path(unwrap(t), over_UserData(p))
    /\ UNCHANGED <<tag_leaf, tag_branch, input, pc, nodes, passes, tree>>

NextRootLib ==
    \/ BuildStart
    \/ BuildPass
    \/ BuildFinish
    \/ RootLibSearchWithPath

SpecRootLib == Init /\ [][NextRootLib]_vars

-----------------------------------------------------------------------------
\* search_with_path call by call.  out holds the run of the search: the
\* frames of the calls of search_node_with_path that have not returned (the
\* innermost last), the shared buffer `path`, the value the last call to
\* return returned, and of that call what the buffer was at its entry and at
\* its return.

\* A call just entered on `node`, the buffer being `path`.
Frame(node, path) == [node |-> node, stage |-> "entry", entry_path |-> path]

NoCall == [any |-> FALSE, found |-> FALSE,
           entry_path |-> TraversePath_new, exit_path |-> TraversePath_new]

Idle == [frames |-> <<>>, path |-> TraversePath_new, returned |-> None,
         last_call |-> NoCall, done |-> FALSE]

Top == out.frames[Len(out.frames)]

InCall(stage) ==
    /\ pc = "built"
    /\ op = "search_node_with_path"
    /\ ~out.done
    /\ out.frames # <<>>
    /\ Top.stage = stage

\* out with the innermost call at another stage, the buffer being `path`.
AtStage(stage, path) ==
    [out EXCEPT !.frames[Len(out.frames)].stage = stage, !.path = path]

\* out after the innermost call returns `result`, the buffer being `path`;
\* the search is done when the call on the root returns.
Return(result, path) ==
    [frames |-> SubSeq(out.frames, 1, Len(out.frames) - 1),
     path |-> path,
     returned |-> result,
     last_call |-> [any |-> TRUE, found |-> result # None,
                    entry_path |-> Top.entry_path, exit_path |-> path],
     done |-> Len(out.frames) = 1]

\* The lists searched call by call: every list of at most MaxSearchLen of the
\* records, and the lists of the tests and of the application.
SearchInputs == ListsOver(Records, MaxSearchLen) \cup {UserList(n) : n \in 0..MaxUsers}

InitSearch ==
    /\ tag_leaf = "ProofOfReserve_Leaf"
    /\ tag_branch = "ProofOfReserve_Branch"
    /\ input \in SearchInputs
    /\ pc = "start"
    /\ nodes = <<>>
    /\ passes = 0
    /\ tree = [root |-> None]
    /\ op = "none"
    /\ pred = {}
    /\ out = Idle

\* search_with_path, lines 310-315: a new buffer and the call on the root,
\* or None at once for a tree without a root.
SearchStart ==
    /\ pc = "built"
    /\ op = "none"
    /\ \E p \in Predicates :
        /\ op' = "search_node_with_path"
        /\ pred' = p
        /\ out' = IF tree.root # None
                  THEN [Idle EXCEPT !.frames = <<Frame(unwrap(tree.root), TraversePath_new)>>]
                  ELSE [Idle EXCEPT !.done = TRUE]
    /\ UNCHANGED <<tag_leaf, tag_branch, input, pc, nodes, passes, tree>>

\* search_node_with_path, lines 326-336: the node is returned, with a copy
\* of the buffer, if it has a payload the predicate is true of.
SearchNodeEntry ==
    /\ InCall("entry")
    /\ out' = IF Top.node.user_data # None /\ predicate(pred, unwrap(Top.node.user_data))
              THEN Return(Some(<<Top.node, [hashes |-> out.path.hashes,
                                            directions |-> out.path.directions]>>),
                          out.path)
              ELSE AtStage("left", out.path)
    /\ UNCHANGED <<tag_leaf, tag_branch, input, pc, nodes, passes, tree, op, pred>>

\* lines 338-340: a step Left is added and the left child is called on.
SearchNodeLeft ==
    /\ InCall("left")
    /\ out' = IF Top.node.left # None
              THEN LET path == add_step(out.path, hex_encode(Top.node.hash), "Left")
                       calling == AtStage("left_called", path)
                   IN  [calling EXCEPT
                           !.frames = Append(calling.frames,
                                             Frame(unwrap(Top.node.left), path))]
              ELSE AtStage("right", out.path)
    /\ UNCHANGED <<tag_leaf, tag_branch, input, pc, nodes, passes, tree, op, pred>>

\* lines 340-344: the left call's match is returned, or the step is popped.
SearchNodeLeftReturned ==
    /\ InCall("left_called")
    /\ out' = IF out.returned # None
              THEN Return(out.returned, out.path)
              ELSE AtStage("right", pop_step(out.path))
    /\ UNCHANGED <<tag_leaf, tag_branch, input, pc, nodes, passes, tree, op, pred>>

\* lines 347-349 and 356: a step Right is added and the right child is
\* called on; without a right child the call returns None.
SearchNodeRight ==
    /\ InCall("right")
    /\ out' = IF Top.node.right # None
              THEN LET path == add_step(out.path, hex_encode(Top.node.hash), "Right")
                       calling == AtStage("right_called", path)
                   IN  [calling EXCEPT
                           !.frames = Append(calling.frames,
                                             Frame(unwrap(Top.node.right), path))]
              ELSE Return(None, out.path)
    /\ UNCHANGED <<tag_leaf, tag_branch, input, pc, nodes, passes, tree, op, pred>>

\* lines 349-356: the right call's match is returned, or the step is popped
\* and the call returns None.
SearchNodeRightReturned ==
    /\ InCall("right_called")
    /\ out' = IF out.returned # None
              THEN Return(out.returned, out.path)
              ELSE Return(None, pop_step(out.path))
    /\ UNCHANGED <<tag_leaf, tag_branch, input, pc, nodes, passes, tree, op, pred>>

NextSearch ==
    \/ BuildStart
    \/ BuildPass
    \/ BuildFinish
    \/ SearchStart
    \/ SearchNodeEntry
    \/ SearchNodeLeft
    \/ SearchNodeLeftReturned
    \/ SearchNodeRight
    \/ SearchNodeRightReturned

SpecSearch == InitSearch /\ [][NextSearch]_vars

-----------------------------------------------------------------------------
\* build alone, run to its end: every step of build that can be taken is
\* taken (the loop is sequential code, nothing holds it back).
NextBuild ==
    \/ BuildStart
    \/ BuildPass
    \/ BuildFinish

SpecBuild == Init /\ [][NextBuild]_vars /\ WF_vars(NextBuild)

-----------------------------------------------------------------------------
\* What the claims speak of.

\* The root node of a tree that has one.
TheRoot == unwrap(tree.root)

\* The hash build gives the leaf of the i-th record (1-based).
LeafHash(i) == tagged_hash(tag_leaf, serialize(input[i]))

\* root() has been called on the built tree.
RootCalled == pc = "built" /\ op = "root"

\* search_with_path(pred) has been called on the built tree; it found a leaf.
Searched == pc = "built" /\ op = "search_with_path"
Found == Searched /\ out # None
FoundNode == unwrap(out)[1]
FoundPath == unwrap(out)[2]

IsLeaf(node) == node.left = None /\ node.right = None

\* The node reached from `node` by the directions dirs, if there is one.
RECURSIVE NodeAt(_, _)
NodeAt(node, dirs) ==
    IF dirs = <<>> THEN Some(node)
    ELSE LET c == CASE Head(dirs) = "Left" -> node.left
                    [] Head(dirs) = "Right" -> node.right
                    [] OTHER -> None
         IN  IF c = None THEN None ELSE NodeAt(unwrap(c), Tail(dirs))

\* The directions from `node` to each of its leaves, in preorder with the left
\* subtree before the right one.
RECURSIVE LeafPaths(_)
LeafPaths(node) ==
    IF IsLeaf(node) THEN << <<>> >>
    ELSE LET l == IF node.left = None THEN <<>> ELSE LeafPaths(unwrap(node.left))
             r == IF node.right = None THEN <<>> ELSE LeafPaths(unwrap(node.right))
         IN  [k \in 1..Len(l) |-> <<"Left">> \o l[k]]
                 \o [k \in 1..Len(r) |-> <<"Right">> \o r[k]]

\* The leaves (by their place in LeafPaths) whose payload satisfies pred.
MatchingLeaves ==
    LET ps == LeafPaths(TheRoot)
    IN  {k \in 1..Len(ps) :
            LET leaf == unwrap(NodeAt(TheRoot, ps[k]))
            IN  leaf.user_data # None /\ unwrap(leaf.user_data) \in pred}

\* The input records that satisfy pred.
MatchingRecords == {i \in 1..Len(input) : input[i] \in pred}

-----------------------------------------------------------------------------
\* C1 as stated: for a single record, the root hash is the leaf paired with
\* a copy of itself under the branch tag, tagged_hash(branch_tag, leaf.hash
\* ++ leaf.hash), and not the leaf's own hash.
C1_SingleRecordRootIsSelfPair ==
    (RootCalled /\ Len(input) = 1)
        => /\ out = Some(hex_encode(tagged_hash(tag_branch, LeafHash(1) \o LeafHash(1))))
           /\ out # Some(hex_encode(LeafHash(1)))

\* C1 as amended: for a single record the while loop makes no pass and the
\* root is the leaf itself: root() is the hex of tagged_hash(leaf_tag,
\* serialize(record)), and the root node has no children and holds the record.
C1_SingleRecordRootIsLeaf ==
    (RootCalled /\ Len(input) = 1)
        => /\ out = Some(hex_encode(LeafHash(1)))
           /\ passes = 0
           /\ TheRoot.left = None /\ TheRoot.right = None
           /\ TheRoot.user_data = Some(input[1])

C1_Witness == RootCalled /\ Len(input) = 1 /\ out # None

-----------------------------------------------------------------------------
\* C3: a returned path has as many steps as the returned leaf is deep; step
\* k holds the hash of the leaf's ancestor at depth k and the direction, Left
\* or Right, of that ancestor's child on the way to the leaf; the leaf's own
\* hash is no step of the path.
C3_PathIsTheAncestors ==
    Found =>
        LET hs == FoundPath.hashes
            dirs == FoundPath.directions
        IN  /\ Len(hs) = Len(dirs)
            /\ \A k \in 1..Len(dirs) : dirs[k] \in {"Left", "Right"}
            /\ IsLeaf(FoundNode)
            /\ NodeAt(TheRoot, dirs) = Some(FoundNode)
            /\ \A k \in 1..Len(hs) :
                /\ NodeAt(TheRoot, SubSeq(dirs, 1, k - 1)) # None
                /\ hs[k] = hex_encode(unwrap(NodeAt(TheRoot, SubSeq(dirs, 1, k - 1))).hash)
                /\ hs[k] # hex_encode(FoundNode.hash)

C3_Witness ==
    /\ Found
    /\ Len(FoundPath.directions) >= 3
    /\ \E j, k \in 1..Len(FoundPath.directions) :
        FoundPath.directions[j] = "Left" /\ FoundPath.directions[k] = "Right"

\* C4: when several leaves satisfy the predicate, copies made by the odd-node
\* duplication included, the leaf returned is the first one in preorder, left
\* before right, and the path's directions are those leading to it.
C4_LeftmostMatchWins ==
    Found =>
        LET ps == LeafPaths(TheRoot)
            first == CHOOSE k \in MatchingLeaves : \A m \in MatchingLeaves : k <= m
        IN  /\ MatchingLeaves # {}
            /\ FoundPath.directions = ps[first]
            /\ NodeAt(TheRoot, ps[first]) = Some(FoundNode)

\* Several leaves match: more of them than records, so copies among them, and
\* a matching leaf that is not the last in preorder was returned.
C4_Witness ==
    /\ Found
    /\ Cardinality(MatchingLeaves) > Cardinality(MatchingRecords)
    /\ Cardinality(MatchingRecords) >= 2
    /\ \E j \in 1..Len(FoundPath.directions) : FoundPath.directions[j] = "Right"

\* C5: search_with_path returns None on an empty tree and on a tree none of
\* whose input records satisfies the predicate; when some input record
\* satisfies it, it returns a leaf whose payload satisfies it.
C5_NotFoundIffNoMatch ==
    Searched =>
        /\ (input = <<>> => out = None)
        /\ (MatchingRecords = {} <=> out = None)
        /\ (out # None =>
                /\ FoundNode.user_data # None
                /\ unwrap(FoundNode.user_data) \in pred)

C5_Witness ==
    Searched /\ input # <<>> /\ pred # {} /\ MatchingRecords = {} /\ out = None

-----------------------------------------------------------------------------
\* The bytes a hex string encodes.
hex_decode(h) == h.hex

\* The replay of a path from its k-th step up to its first: the k-th listed
\* hash is taken as the sibling's and combined with the running hash under
\* the branch tag.  With running_on_listed_side the running hash stands on
\* the side the direction names (Left: running ++ sibling), otherwise the
\* sibling does.
RECURSIVE Replay(_, _, _, _)
Replay(running, path, k, running_on_listed_side) ==
    IF k = 0 THEN running
    ELSE LET sibling == hex_decode(path.hashes[k])
             running_left == (path.directions[k] = "Left") = running_on_listed_side
             combined == IF running_left THEN running \o sibling
                         ELSE sibling \o running
         IN  Replay(tagged_hash(tag_branch, combined), path, k - 1,
                    running_on_listed_side)

\* The hashes of all the nodes of a subtree.
RECURSIVE NodeHashes(_)
NodeHashes(node) ==
    {node.hash}
        \cup (IF node.left = None THEN {} ELSE NodeHashes(unwrap(node.left)))
        \cup (IF node.right = None THEN {} ELSE NodeHashes(unwrap(node.right)))

\* C2 as stated: replaying the returned path bottom-up from the leaf's hash,
\* each listed hash taken as the sibling hash on the side the listed
\* direction gives (either reading of that side), yields the hash root()
\* returns.
C2_ReplayYieldsRoot ==
    Found =>
        \/ Some(hex_encode(Replay(FoundNode.hash, FoundPath,
                                  Len(FoundPath.hashes), TRUE))) = root(tree)
        \/ Some(hex_encode(Replay(FoundNode.hash, FoundPath,
                                  Len(FoundPath.hashes), FALSE))) = root(tree)

\* C2 as amended: the listed hashes are the ancestors' hashes, not the
\* siblings'.  The first listed hash is the hash root() returns (with an
\* empty path the leaf's own hash is); and replaying bottom-up with the
\* sibling hashes taken from the tree reproduces each listed hash in turn:
\* the k-th listed hash is tagged_hash(branch_tag, below ++ sibling) when the
\* k-th direction is Left and tagged_hash(branch_tag, sibling ++ below) when
\* it is Right, where below is the next listed hash (the leaf's hash at the
\* last step) and sibling is the hash of a node of the tree.
C2_ReplayReproducesListedHashes ==
    Found =>
        LET hs == FoundPath.hashes
            dirs == FoundPath.directions
            n == Len(hs)
        IN  /\ root(tree) = Some(IF n = 0 THEN hex_encode(FoundNode.hash) ELSE hs[1])
            /\ \A k \in 1..n :
                LET below == IF k = n THEN FoundNode.hash ELSE hex_decode(hs[k + 1])
                IN  \E sibling \in NodeHashes(TheRoot) :
                        hs[k] = hex_encode(tagged_hash(tag_branch,
                                    IF dirs[k] = "Left" THEN below \o sibling
                                    ELSE sibling \o below))

\* A leaf two levels down, reached by a Right step, whose sibling differs.
C2_Witness ==
    /\ Found
    /\ Len(FoundPath.hashes) >= 2
    /\ FoundPath.directions[Len(FoundPath.directions)] = "Right"
    /\ Cardinality(NodeHashes(TheRoot)) >= 7

\* C6: build on the empty list returns a tree without a root and does not
\* panic, and every read operation on it reports absence: root() is None,
\* search_with_path is None under any predicate, iterate_tree produces no
\* step (None).
C6_EmptyTreeReportsAbsence ==
    (input = <<>>) =>
        /\ pc # "panic"
        /\ (pc = "built") =>
            /\ tree.root = None
            /\ (op = "root") => (out = None)
            /\ (op = "search_with_path") => (out = None)
            /\ (op = "iterate_tree") => (out = None)

C6_Witness ==
    input = <<>> /\ pc = "built" /\ op = "iterate_tree" /\ out = None

-----------------------------------------------------------------------------
\* What root() returns on the tree built from each argument list, per tags.
BuiltRoots ==
    {[tags |-> t, input |-> in, root |-> root(unwrap(build(t[1], t[2], in)))] :
        t \in TagPairs, in \in Inputs}

\* The builds with the tags of the tree at hand.
OtherBuilds == {e \in BuiltRoots : e.tags = <<tag_leaf, tag_branch>>}

Count(s, r) == Cardinality({i \in 1..Len(s) : s[i] = r})

IsPermutation(s, t) ==
    /\ Len(s) = Len(t)
    /\ \A i \in 1..Len(s) : Count(s, s[i]) = Count(t, s[i])

\* C7 as stated: two builds with the same tags whose record lists differ in
\* any way, in a record or in the number of records, have different roots.
C7_AnyDifferenceChangesRoot ==
    RootCalled =>
        \A e \in OtherBuilds : e.input # input => e.root # out

\* C7 as amended: two builds with the same tags and the same number of
\* records whose lists differ at some position have different roots.  (Lists
\* of different lengths can share a root: the odd-node duplication gives
\* [a, b, c] and [a, b, c, c] the same tree.)
C7_SameLengthDifferenceChangesRoot ==
    RootCalled =>
        \A e \in OtherBuilds :
            (Len(e.input) = Len(input) /\ e.input # input) => e.root # out

\* A list of odd length, where the last leaf is duplicated, with another list
\* of the same length that differs from it only in the last record.
C7_Witness ==
    /\ RootCalled
    /\ Len(input) = 3
    /\ \E e \in OtherBuilds :
        /\ Len(e.input) = 3
        /\ e.input[1] = input[1] /\ e.input[2] = input[2]
        /\ e.input[3] # input[3]

\* C8: for n > 1, a permutation of the record list that differs from it at
\* some position builds a different root.
C8_OrderSensitive ==
    (RootCalled /\ Len(input) > 1) =>
        \A e \in OtherBuilds :
            (IsPermutation(e.input, input) /\ e.input # input) => e.root # out

C8_Witness ==
    /\ RootCalled
    /\ Len(input) > 2
    /\ \E e \in OtherBuilds : IsPermutation(e.input, input) /\ e.input # input

-----------------------------------------------------------------------------
\* The smallest d with 2^d >= n, for n >= 1.
CeilLog2(n) == CHOOSE d \in 0..n : 2^d >= n /\ \A e \in 0..(d - 1) : 2^e < n

\* Bit b of i.
Bit(i, b) == (i \div 2^b) % 2

IsInjective(s) == \A i, j \in 1..Len(s) : s[i] = s[j] => i = j

\* C10: in a list of n >= 2 pairwise distinct records, the search for the
\* record at 0-based index i returns a path of length d = ceil(log2 n) whose
\* first hash is the root hash and whose k-th direction (k = 0 at the root) is
\* Right exactly when bit d-1-k of i is 1.
C10_DirectionsAreTheBitsOfTheIndex ==
    (Searched /\ Len(input) >= 2 /\ IsInjective(input)) =>
        \A i \in 0..(Len(input) - 1) :
            pred = {input[i + 1]} =>
                /\ out # None
                /\ LET d == CeilLog2(Len(input))
                       hs == FoundPath.hashes
                       dirs == FoundPath.directions
                   IN  /\ Len(hs) = d /\ Len(dirs) = d
                       /\ Some(hs[1]) = root(tree)
                       /\ \A k \in 0..(d - 1) :
                            dirs[k + 1] = IF Bit(i, d - 1 - k) = 1 THEN "Right"
                                          ELSE "Left"

\* Index 2 of 5 records: Left, Right, Left.
C10_Witness ==
    /\ Found
    /\ input = UserList(5)
    /\ pred = {UserItem_B(3)}
    /\ FoundPath.directions = <<"Left", "Right", "Left">>

-----------------------------------------------------------------------------
\* truncate_middle has been called.
Truncated == pc = "util" /\ op = "truncate_middle"

\* C11: truncate_middle returns s unchanged when len(s) <= max_len; otherwise
\* exactly the first floor(max_len/2) characters of s, then "...", then the
\* last max_len - floor(max_len/2) characters of s, max_len + 3 characters
\* in all.
C11_TruncateMiddleKeepsEnds ==
    Truncated =>
        LET s == out.input
            m == out.max_len
            n == Len(s)
            h == m \div 2
        IN  /\ out.returned # None
            /\ n <= m => unwrap(out.returned) = s
            /\ n > m =>
                LET r == unwrap(out.returned)
                IN  /\ Len(r) = m + 3
                    /\ \A k \in 1..h : r[k] = s[k]
                    /\ \A k \in 1..3 : r[h + k] = "."
                    /\ \A k \in 1..(m - h) : r[h + 3 + k] = s[n - (m - h) + k]

\* The first case of the tests: the alphabet cut to 10 is "abcde...vwxyz".
C11_Witness ==
    /\ Truncated
    /\ out.input = Alphabet /\ out.max_len = 10
    /\ out.returned =
        Some(<<"a", "b", "c", "d", "e", ".", ".", ".", "v", "w", "x", "y", "z">>)

\* C12: truncate_middle never underflows or indexes out of range: for every
\* max_len >= 0 and every input longer than max_len, the slice bounds
\* floor(max_len/2) and len - (max_len - floor(max_len/2)) lie in [0, len]
\* and it returns; with max_len = 0 the result is exactly "...", with
\* max_len = 1 it is "..." followed by the last character.
C12_TruncateMiddleStaysInRange ==
    (Truncated /\ Len(out.input) > out.max_len) =>
        LET s == out.input
            m == out.max_len
            n == Len(s)
        IN  /\ str_slice(s, 0, half_len_of(m)) # None
            /\ usize_sub(m, half_len_of(m)) # None
            /\ usize_sub(n, unwrap(usize_sub(m, half_len_of(m)))) # None
            /\ out.returned # None
            /\ m = 0 => out.returned = Some(<<".", ".", ".">>)
            /\ m = 1 => out.returned = Some(<<".", ".", ".", s[n]>>)

C12_Witness ==
    /\ Truncated
    /\ out.max_len = 0 /\ out.input # <<>>
    /\ out.returned = Some(<<".", ".", ".">>)

-----------------------------------------------------------------------------
\* A proof by identifier has been asked of the front end's tree.
ProofAsked == pc = "built" /\ op = "proof_by_user_id"

\* The records of the tree whose identifier the requested segment names.
RequestedRecords ==
    {i \in 1..Len(input) : pred.text = "decimal" /\ input[i].id = pred.num}

\* C13 as stated: the proof by identifier, given an identifier that matches
\* no leaf of the tree, reports "not found" as a normal outcome and does not
\* panic; given a matching identifier it returns that leaf's balance with its
\* path as (hex-hash, direction-code) pairs.
C13_UnknownIdReportsNotFound ==
    ProofAsked =>
        /\ RequestedRecords = {} => out.status # "panic"
        /\ RequestedRecords # {} =>
            /\ out.status = "ok"
            /\ \E i \in RequestedRecords :
                unwrap(out.body).user_balance = input[i].balance
            /\ \A k \in 1..Len(unwrap(out.body).proof) :
                unwrap(out.body).proof[k][2] \in {0, 1}

\* Identifier 9 asked of the tree of the 8 launch users: the handler panics.
C13_Witness ==
    /\ ProofAsked
    /\ input = UserList(8)
    /\ pred = [text |-> "decimal", num |-> 9]
    /\ out = Panicked

-----------------------------------------------------------------------------
\* The reference construction, level by level.  Level 0: one leaf per record,
\* in input order, hash = tagged_hash(leaf_tag, serialize(record)), payload =
\* the record.
RefLeaves ==
    [i \in 1..Len(input) |->
        [hash |-> tagged_hash(tag_leaf, serialize(input[i])),
         left |-> None, right |-> None, user_data |-> Some(input[i])]]

\* The next level: its j-th node has the children level[2j], level[2j+1]
\* (0-based), a trailing unpaired node being paired with a copy of itself;
\* its hash is tagged_hash(branch_tag, left.hash ++ right.hash).
RefNext(level) ==
    [j \in 1..((Len(level) + 1) \div 2) |->
        LET l == level[2 * j - 1]
            r == IF 2 * j <= Len(level) THEN level[2 * j] ELSE level[2 * j - 1]
        IN  [hash |-> tagged_hash(tag_branch, l.hash \o r.hash),
             left |-> Some(l), right |-> Some(r), user_data |-> None]]

RECURSIVE RefLevel(_)
RefLevel(k) == IF k = 0 THEN RefLeaves ELSE RefNext(RefLevel(k - 1))

RECURSIVE RefTop(_)
RefTop(level) == IF Len(level) > 1 THEN RefTop(RefNext(level)) ELSE level[1]

\* C14: for every non-empty input, build's vector of nodes after k passes is
\* level k of the reference construction, and the tree it returns has the
\* single node of the reference's last level as its root: leaves in input
\* order, pairs left before right, a trailing unpaired node of any level
\* paired with a copy of itself.
C14_BuildIsLevelWise ==
    /\ pc = "reduce" => nodes = RefLevel(passes)
    /\ (pc = "built" /\ input # <<>>) => tree.root = Some(RefTop(RefLeaves))

\* Six records: the level above the leaves has three nodes, the third of
\* which is paired with its copy.
C14_Witness ==
    /\ pc = "built"
    /\ Len(input) = 6
    /\ passes = 3
    /\ unwrap(TheRoot.right).left = unwrap(TheRoot.right).right
    /\ unwrap(TheRoot.left).left # unwrap(TheRoot.left).right

-----------------------------------------------------------------------------
\* A node and all below it: a leaf (no children, a payload) or a branch (two
\* children, no payload), none of them the default node (empty hash, no
\* payload, no children).
RECURSIVE WellFormed(_)
WellFormed(node) ==
    /\ node # DefaultNode
    /\ node.hash # <<>>
    /\ \/ /\ node.left = None /\ node.right = None
          /\ node.user_data # None
       \/ /\ node.left # None /\ node.right # None
          /\ node.user_data = None
          /\ WellFormed(unwrap(node.left))
          /\ WellFormed(unwrap(node.right))

\* C15: every node of a tree returned by build is a leaf (no left child, no
\* right child, payload present) or a branch (both children present, payload
\* absent); no node has exactly one child and no default node left by
\* std::mem::take is reachable from the root.
C15_LeafOrTwoChildBranch ==
    (pc = "built" /\ tree.root # None) => WellFormed(TheRoot)

\* Five records: the third leaf pair and the third node above the leaves are
\* pairs of a node with its clone, made by the arm that takes the node.
C15_Witness ==
    /\ pc = "built"
    /\ Len(input) = 5
    /\ tree.root # None
    /\ unwrap(TheRoot.right).left = unwrap(TheRoot.right).right
    /\ WellFormed(unwrap(TheRoot.right))

-----------------------------------------------------------------------------
\* iterate_tree has been called on the built tree.
Iterated == pc = "built" /\ op = "iterate_tree"

\* The places of a subtree's nodes, each as the directions leading to it, in
\* preorder: the node, then its whole left subtree, then its right one.
RECURSIVE PreorderPaths(_)
PreorderPaths(node) ==
    LET l == IF node.left = None THEN <<>> ELSE PreorderPaths(unwrap(node.left))
        r == IF node.right = None THEN <<>> ELSE PreorderPaths(unwrap(node.right))
    IN  << <<>> >>
            \o [k \in 1..Len(l) |-> <<"Left">> \o l[k]]
            \o [k \in 1..Len(r) |-> <<"Right">> \o r[k]]

-----------------------------------------------------------------------------
\* display_mermaid_diagram has been called on the built tree.
Displayed == pc = "built" /\ op = "display_mermaid_diagram"

\* C17 as stated: in the output of display_mermaid_diagram the identifiers
\* Node_<full hex hash> are unique: the lines of two distinct nodes of the
\* tree never carry the same identifier.
C17_NodeIdsAreUnique ==
    Displayed =>
        \A j, k \in 1..Len(out.lines) :
            j # k => out.lines[j].node # out.lines[k].node

\* Three distinct records: the third leaf and its clone, two nodes of the
\* tree, are both drawn as the one identifier, and the two edges from their
\* parent are the same edge.
C17_Witness ==
    /\ Displayed
    /\ input = UserList(3)
    /\ Len(out.lines) = 7
    /\ out.lines[6].node = out.lines[7].node
    /\ out.lines[6].edge = out.lines[7].edge

-----------------------------------------------------------------------------
\* search_with_path of merkle-root-lib has been called, on the tags and
\* records the generic tree was built from.
RootLibSearched == pc = "built" /\ op = "root_lib_search_with_path"

\* C18 as stated: for the same tags, records and predicate, merkle-root-lib
\* and merkle-tree-lib return the same search_with_path result: both None, or
\* the same list of (hex-hash, direction-code) pairs from to_vec, also when a
\* matching record occupies several leaves because of the odd-node
\* duplication.
C18_BothLibrariesFindTheSamePath ==
    RootLibSearched =>
        LET generic == search_with_path(tree, pred)
        IN  /\ (generic = None) <=> (out = None)
            /\ (generic # None /\ out # None) =>
                to_vec(unwrap(generic)[2]) = to_vec(unwrap(out)[2])

\* Three records, the third searched for: merkle-root-lib returns the clone,
\* Right then Right, where merkle-tree-lib returns Right then Left.
C18_Witness ==
    /\ RootLibSearched
    /\ input = UserList(3)
    /\ pred = {UserItem_B(3)}
    /\ out # None
    /\ unwrap(out)[2].directions = <<"Right", "Right">>
    /\ unwrap(search_with_path(tree, pred))[2].directions = <<"Right", "Left">>
    /\ unwrap(out)[2].hashes = unwrap(search_with_path(tree, pred))[2].hashes

-----------------------------------------------------------------------------
\* C19: a path returned by search_with_path never contains the direction
\* Root and has as many hashes as directions, so to_vec of it is a list of
\* the same length, in the same order, in which every direction code is 0
\* (Left) or 1 (Right) and never 2.
C19_NoRootStepInAPath ==
    Found =>
        LET hs == FoundPath.hashes
            dirs == FoundPath.directions
            pairs == to_vec(FoundPath)
        IN  /\ \A k \in 1..Len(dirs) : dirs[k] # "Root"
            /\ Len(hs) = Len(dirs)
            /\ Len(pairs) = Len(hs)
            /\ \A k \in 1..Len(pairs) :
                /\ pairs[k][1] = hs[k]
                /\ pairs[k][2] \in {0, 1}
                /\ pairs[k][2] # 2
                /\ (pairs[k][2] = 0) <=> (dirs[k] = "Left")
                /\ (pairs[k][2] = 1) <=> (dirs[k] = "Right")

\* A path of three steps whose codes are 0, 1, 0.
C19_Witness ==
    /\ Found
    /\ Len(to_vec(FoundPath)) = 3
    /\ to_vec(FoundPath)[1][2] = 0
    /\ to_vec(FoundPath)[2][2] = 1
    /\ to_vec(FoundPath)[3][2] = 0

-----------------------------------------------------------------------------
\* A search is run call by call; it has returned.
Searching == pc = "built" /\ op = "search_node_with_path"
SearchDone == Searching /\ out.done

\* The search run call by call returns what search_with_path returns.
SearchDoneAgrees == SearchDone => out.returned = search_with_path(tree, pred)

\* C20: at every entry of search_node_with_path on a node at depth d the
\* shared buffer holds exactly d steps, those of the node's ancestors (their
\* hashes, and the directions leading from the root to the node); every call
\* that returns without a match leaves the buffer as it was at that call's
\* entry; so after a search of the whole tree that finds nothing the buffer
\* is empty.
C20_BufferIsBacktracked ==
    Searching =>
        /\ (~out.done /\ out.frames # <<>> /\ Top.stage = "entry") =>
            LET d == Len(out.frames) - 1
            IN  /\ Len(out.path.hashes) = d
                /\ Len(out.path.directions) = d
                /\ NodeAt(TheRoot, out.path.directions) = Some(Top.node)
                /\ \A k \in 1..d :
                    /\ out.path.hashes[k] = hex_encode(out.frames[k].node.hash)
                    /\ NodeAt(TheRoot, SubSeq(out.path.directions, 1, k - 1))
                            = Some(out.frames[k].node)
        /\ (out.last_call.any /\ ~out.last_call.found) =>
                out.last_call.exit_path = out.last_call.entry_path
        /\ (out.done /\ out.returned = None) => out.path = TraversePath_new

\* Five records none of which the predicate is true of: every node has been
\* called on and has returned None, and the buffer is empty again.
C20_Witness ==
    /\ SearchDone
    /\ Len(input) = 5
    /\ pred # {}
    /\ out.returned = None
    /\ out.last_call.any /\ ~out.last_call.found
    /\ out.path = TraversePath_new

-----------------------------------------------------------------------------
\* ceil(k / 2)
HalfUp(k) == (k + 1) \div 2

\* The length of a level of n nodes after p passes.
RECURSIVE LevelLen(_, _)
LevelLen(n, p) == IF p = 0 THEN n ELSE HalfUp(LevelLen(n, p - 1))

\* C21: build terminates for every non-empty input: each pass of the loop
\* replaces a level of k > 1 nodes by exactly ceil(k/2) nodes; the loop ends
\* with exactly one node after exactly ceil(log2 n) passes; the panic arm of
\* the pair match is never reached; and nodes[0] exists when the root is
\* taken.
C21_BuildTerminates ==
    /\ [](input # <<>> =>
            /\ pc # "panic"
            /\ pc = "reduce" =>
                /\ Len(nodes) >= 1
                /\ Len(nodes) = LevelLen(Len(input), passes)
                /\ passes <= CeilLog2(Len(input))
                /\ ~build_continues(nodes) =>
                    (Len(nodes) = 1 /\ passes = CeilLog2(Len(input)))
            /\ pc = "built" =>
                /\ Len(nodes) = 1
                /\ passes = CeilLog2(Len(input))
                /\ tree.root = Some(nodes[1]))
    /\ [][(input # <<>> /\ pc = "reduce" /\ Len(nodes) > 1) =>
            (pc' = "reduce" /\ Len(nodes') = HalfUp(Len(nodes)) /\ passes' = passes + 1)]_vars
    /\ (input # <<>>) => <>(pc = "built")

\* Five records: 5, 3, 2, 1 nodes, three passes, and the root is taken.
C21_Witness ==
    /\ pc = "built"
    /\ Len(input) = 5
    /\ passes = 3
    /\ Len(nodes) = 1
    /\ tree.root = Some(nodes[1])

====
